---- MODULE Spec2Model ----
(***************************************************************************)
(* listCommits (src/src/api/listCommits.js): the recursive walk over the   *)
(* commit graph that builds the map  oid -> { children: [...] }.           *)
(*                                                                         *)
(* The object store, the shallow set and the resolved starting set are     *)
(* chosen in Init and never change.  The walk is modelled step by step     *)
(* with an explicit call stack: one frame per active call of walk(oid).    *)
(***************************************************************************)
EXTENDS Integers, Sequences, FiniteSets, TLC

\* Bounds of the model.
NumHashes == 3
MaxStarts == 2
MaxShallow == 1

Oids == 1..NumHashes

VARIABLES
    store,        \* oid -> what readObject yields for it
    shallows,     \* the set GitShallowManager.read returned (line 53)
    refs,         \* what each name of listBranches (line 50) resolves to, in order
    resolved,     \* how many of these names the loop of line 56 has resolved
    startingSet,  \* the resolved starting oids, in Set insertion order (54-58)
    visited,      \* the map under construction (line 66)
    stack,        \* active calls of walk, innermost last
    next,         \* position of the for loop of line 101 in startingSet
    status,       \* "running" | "returned" | "failed"
    err,          \* the error thrown to the caller, NoErr while there is none
    reads,        \* history: oid -> number of readObject calls made for it
    expanded,     \* history: oid -> number of times its parent list was iterated
    first         \* the map the first call returned (two-call specification)

vars == <<store, shallows, refs, resolved, startingSet, visited, stack, next, status, err,
          reads, expanded, first>>

----------------------------------------------------------------------------
\* Helpers on sequences.
Range(s) == {s[i] : i \in DOMAIN s}

Count(s, x) == Cardinality({i \in DOMAIN s : s[i] = x})

IsPrefix(s, t) == Len(s) <= Len(t) /\ \A i \in DOMAIN s : s[i] = t[i]

\* All sequences of pairwise distinct elements of S.
DistinctSeqs(S) ==
    UNION {{s \in [1..n -> S] : \A i, j \in 1..n : i # j => s[i] # s[j]} :
           n \in 0..Cardinality(S)}

----------------------------------------------------------------------------
\* The object store.  An oid names a commit (with its ordered parent list),
\* an annotated tag (with the oid it points at), an object of another kind,
\* or nothing at all.  Oids are content hashes, so an object only refers to
\* objects that existed before it: the graph is acyclic (comment, lines 67-69).
CommitObject(ps) == [type |-> "commit", parent |-> ps, object |-> 0]
TagObject(t)     == [type |-> "tag", parent |-> << >>, object |-> t]
TreeObject       == [type |-> "tree", parent |-> << >>, object |-> 0]
Missing          == [type |-> "missing", parent |-> << >>, object |-> 0]

ObjectsAt(h) ==
    {CommitObject(ps) : ps \in DistinctSeqs(1..(h - 1))}
        \cup {TagObject(t) : t \in 1..(h - 1)}
        \cup {TreeObject, Missing}

Stores == {s \in [Oids -> UNION {ObjectsAt(h) : h \in Oids}] :
              \A h \in Oids : s[h] \in ObjectsAt(h)}

\* readObject({ oid }): the type and decoded headers of the object.
ReadObject(oid) == store[oid]

\* let visited = {}
EmptyVisited == [k \in {} |-> << >>]

NoErr == [code |-> "none", oid |-> 0, actual |-> "", expected |-> "", caller |-> ""]

\* No call has returned yet.
NoMap == [done |-> FALSE, map |-> EmptyVisited]

ZeroCount == [h \in Oids |-> 0]

\* The error as the caller of listCommits receives it (catch, lines 106-109).
Thrown(e) == [e EXCEPT !.caller = "git.listBranches"]

ObjectTypeError(oid, actual, expected) ==
    [code |-> "ObjectTypeError", oid |-> oid, actual |-> actual,
     expected |-> expected, caller |-> ""]

NotFoundError(oid) ==
    [code |-> "NotFoundError", oid |-> oid, actual |-> "", expected |-> "",
     caller |-> ""]

\* What a name that does not resolve stands for in refs.
NoOid == 0

\* The error of GitRefManager.resolve for the name at position k.
ResolveError(k) ==
    [code |-> "ResolveError", oid |-> NoOid, actual |-> "", expected |-> "",
     caller |-> ""]

\* Variant: the walk does not wait for the names that are still to be resolved.
ResolutionNotAwaited == TRUE

\* The for loop of lines 56-58 is over.
ResolutionDone == resolved = Len(refs)

\* Variant: the shallow set is never consulted.
IsShallowNever(oid) == FALSE

\* shallows.has(oid)
IsShallow(oid) == oid \in shallows

\* Variant: the kind of the object is not checked.
NotACommitUnchecked(type) == FALSE

\* type !== 'commit'
NotACommit(type) == type # "commit"

\* Variant: the negation is lost.
UnvisitedInverted(parentOid) == parentOid \in DOMAIN visited

\* !visited.hasOwnProperty(parentOid)
Unvisited(parentOid) == parentOid \notin DOMAIN visited

\* Variant: the starting oid is not inserted.
InsertStartSkipped(oid) == visited

\* visited[oid] = { children: [] }
InsertStart(oid) ==
    [k \in DOMAIN visited \cup {oid} |-> IF k = oid THEN << >> ELSE visited[k]]

\* Variant: for ... in, which yields the positions of the array, not its elements.
ParentAtIndex(oid, i) == i

\* for (let parentOid of parents): the parent the loop is at in walk(oid)
ParentAt(oid, i) == ReadObject(oid).parent[i]

\* Variant: unshift instead of push.
PushChildFirst(children, oid) == <<oid>> \o children

\* children.push(oid)
PushChild(children, oid) == Append(children, oid)

Frame(oid, pc, i) == [oid |-> oid, pc |-> pc, i |-> i]

Top == stack[Len(stack)]
Pop == SubSeq(stack, 1, Len(stack) - 1)
ReplaceTop(f) == Append(Pop, f)

----------------------------------------------------------------------------
\* The oids an object names: the parent headers of a commit, the object header
\* of a tag.
Refs(h) ==
    IF store[h].type = "tag" THEN {store[h].object} ELSE Range(store[h].parent)

\* The oids that S leads to, through any number of objects.
RECURSIVE LeadsTo(_)
LeadsTo(S) ==
    LET T == S \cup UNION {Refs(h) : h \in S}
    IN IF T = S THEN S ELSE LeadsTo(T)

\* All sequences of at most n elements of S.
SeqsUpTo(S, n) == UNION {[1..k -> S] : k \in 0..n}

\* The state before the names are resolved (line 54): any store, any shallow
\* set, any list of names, each resolving to an oid or to nothing; two names may
\* resolve to the same oid.  The objects that no name leads to are there as root
\* commits; they come in one shape only, to keep the model small.
InitResolve ==
    /\ store \in Stores
    /\ refs \in SeqsUpTo(Oids \cup {NoOid}, MaxStarts)
    /\ \A h \in Oids \ LeadsTo(Range(refs) \ {NoOid}) : store[h] = CommitObject(<< >>)
    /\ shallows \in {S \in SUBSET Oids : Cardinality(S) <= MaxShallow}
    /\ resolved = 0
    /\ startingSet = << >>
    /\ visited = EmptyVisited
    /\ stack = << >>
    /\ next = 1
    /\ status = "running"
    /\ err = NoErr
    /\ reads = ZeroCount
    /\ expanded = ZeroCount
    /\ first = NoMap

\* The state when the walk begins (line 100), every name resolved: any store,
\* any shallow set, any starting set (a Set: no oid twice, iterated in insertion
\* order).  The objects that no starting oid leads to are there as root commits;
\* they come in one shape only, to keep the model small.
Init ==
    /\ store \in Stores
    /\ startingSet \in {s \in DistinctSeqs(Oids) : Len(s) <= MaxStarts}
    /\ \A h \in Oids \ LeadsTo(Range(startingSet)) : store[h] = CommitObject(<< >>)
    /\ shallows \in {S \in SUBSET Oids : Cardinality(S) <= MaxShallow}
    /\ refs = startingSet
    /\ resolved = Len(refs)
    /\ visited = EmptyVisited
    /\ stack = << >>
    /\ next = 1
    /\ status = "running"
    /\ err = NoErr
    /\ reads = ZeroCount
    /\ expanded = ZeroCount
    /\ first = NoMap

\* Variant: the error is caught by the caller of the failing walk, which goes on.
FailSwallowed(e) ==
    /\ status' = "failed"
    /\ err' = Thrown(e)
    /\ stack' = SubSeq(stack, 1, Len(stack) - 1)

\* An exception leaves every active call of walk and the for loop of line 101.
Fail(e) ==
    /\ status' = "failed"
    /\ err' = Thrown(e)
    /\ stack' = << >>

\* for (const ref of start) { startingSet.add(await GitRefManager.resolve({ ref })) }
Resolve ==
    /\ status = "running"
    /\ stack = << >>
    /\ resolved < Len(refs)
    /\ LET oid == refs[resolved + 1] IN
         IF oid = NoOid
         THEN /\ Fail(ResolveError(resolved + 1))
              /\ UNCHANGED <<resolved, startingSet>>
         ELSE /\ startingSet' = IF oid \in Range(startingSet)
                                THEN startingSet
                                ELSE Append(startingSet, oid)
              /\ resolved' = resolved + 1
              /\ UNCHANGED <<status, err, stack>>
    /\ UNCHANGED <<store, shallows, refs, visited, next, reads, expanded, first>>

\* for (const oid of startingSet) { visited[oid] = { children: [] }; await walk(oid) }
StartWalk ==
    /\ status = "running"
    /\ ResolutionDone
    /\ stack = << >>
    /\ next <= Len(startingSet)
    /\ LET oid == startingSet[next] IN
         /\ visited' = InsertStart(oid)
         /\ stack' = <<Frame(oid, "read", 0)>>
    /\ next' = next + 1
    /\ UNCHANGED <<store, shallows, refs, resolved, startingSet, status, err, reads, expanded, first>>

\* walk(oid), from its entry to the for loop over the parents (lines 71-84).
\* For a tag the call ends with  return walk(commit) : nothing is left to do in
\* it once the inner call is over, so the inner call takes its frame.
WalkRead ==
    /\ stack # << >>
    /\ Top.pc = "read"
    /\ LET oid == Top.oid
           obj == ReadObject(oid)
       IN
         /\ reads' = [reads EXCEPT ![oid] = @ + 1]
         /\ IF obj.type = "missing"
            THEN /\ Fail(NotFoundError(oid))
                 /\ UNCHANGED expanded
            ELSE IF obj.type = "tag"
            THEN /\ stack' = ReplaceTop(Frame(obj.object, "read", 0))
                 /\ UNCHANGED <<status, err, expanded>>
            ELSE IF NotACommit(obj.type)
            THEN /\ Fail(ObjectTypeError(oid, obj.type, "commit"))
                 /\ UNCHANGED expanded
            ELSE IF ~IsShallow(oid)
            THEN /\ stack' = ReplaceTop(Frame(oid, "loop", 1))
                 /\ expanded' = [expanded EXCEPT ![oid] = @ + 1]
                 /\ UNCHANGED <<status, err>>
            ELSE /\ stack' = Pop
                 /\ UNCHANGED <<status, err, expanded>>
    /\ UNCHANGED <<store, shallows, refs, resolved, startingSet, visited, next, first>>

\* if (!visited.hasOwnProperty(parentOid)) { await walk(parentOid) } else { skip }
WalkParent ==
    /\ stack # << >>
    /\ Top.pc = "loop"
    /\ Top.i <= Len(ReadObject(Top.oid).parent)
    /\ LET parentOid == ParentAt(Top.oid, Top.i) IN
         IF Unvisited(parentOid)
         THEN stack' = Append(ReplaceTop(Frame(Top.oid, "record", Top.i)),
                              Frame(parentOid, "read", 0))
         ELSE stack' = ReplaceTop(Frame(Top.oid, "record", Top.i))
    /\ UNCHANGED <<store, shallows, refs, resolved, startingSet, visited, next, status, err,
                   reads, expanded, first>>

\* if (!(parentOid in visited)) { visited[parentOid] = { children: [] } }
\* visited[parentOid].children.push(oid)
WalkRecord ==
    /\ stack # << >>
    /\ Top.pc = "record"
    /\ LET oid == Top.oid
           parentOid == ParentAt(oid, Top.i)
       IN
         visited' = [k \in DOMAIN visited \cup {parentOid} |->
                        IF k = parentOid
                        THEN PushChild(IF k \in DOMAIN visited THEN visited[k] ELSE << >>, oid)
                        ELSE visited[k]]
    /\ stack' = ReplaceTop(Frame(Top.oid, "loop", Top.i + 1))
    /\ UNCHANGED <<store, shallows, refs, resolved, startingSet, next, status, err, reads,
                   expanded, first>>

\* Variant: the promise of walk(oid) is never resolved.
WalkReturnHangs ==
    /\ stack # << >>
    /\ Top.pc = "loop"
    /\ Top.i > Len(ReadObject(Top.oid).parent)
    /\ UNCHANGED vars

\* The for loop over the parents is over: walk(oid) returns to its caller.
WalkReturn ==
    /\ stack # << >>
    /\ Top.pc = "loop"
    /\ Top.i > Len(ReadObject(Top.oid).parent)
    /\ stack' = Pop
    /\ UNCHANGED <<store, shallows, refs, resolved, startingSet, visited, next, status, err,
                   reads, expanded, first>>

\* return visited
Return ==
    /\ status = "running"
    /\ ResolutionDone
    /\ stack = << >>
    /\ next > Len(startingSet)
    /\ status' = "returned"
    /\ UNCHANGED <<store, shallows, refs, resolved, startingSet, visited, stack, next, err,
                   reads, expanded, first>>

Next ==
    \/ StartWalk
    \/ WalkRead
    \/ WalkParent
    \/ WalkRecord
    \/ WalkReturn
    \/ Return

Spec == Init /\ [][Next]_vars

\* Variant: visited lives outside listCommits and is shared by its calls.
CallAgainShared ==
    /\ status = "returned"
    /\ ~first.done
    /\ first' = [done |-> TRUE, map |-> visited]
    /\ visited' = visited
    /\ stack' = << >>
    /\ next' = 1
    /\ status' = "running"
    /\ err' = NoErr
    /\ reads' = ZeroCount
    /\ expanded' = ZeroCount
    /\ UNCHANGED <<store, shallows, refs, resolved, startingSet>>

\* A second call of listCommits on the same repository, after the first one
\* returned: the names resolve to the same starting set, visited is built anew
\* (44-66).
CallAgain ==
    /\ status = "returned"
    /\ ~first.done
    /\ first' = [done |-> TRUE, map |-> visited]
    /\ visited' = EmptyVisited
    /\ stack' = << >>
    /\ next' = 1
    /\ status' = "running"
    /\ err' = NoErr
    /\ reads' = ZeroCount
    /\ expanded' = ZeroCount
    /\ UNCHANGED <<store, shallows, refs, resolved, startingSet>>

NextTwice ==
    \/ Next
    \/ CallAgain

SpecTwice == Init /\ [][NextTwice]_vars

\* The call from the resolution of the names on.
NextResolve ==
    \/ Resolve
    \/ Next

SpecResolve == InitResolve /\ [][NextResolve]_vars

\* The shallow file lists commits.  Line 82 consults the set for commits only,
\* so other entries change no step of the walk; the specification of progress
\* leaves them out.
InitLive == Init /\ \A h \in shallows : store[h].type = "commit"

\* Every await of the call is answered in the end: the object reader resolves
\* or rejects each read, and the event loop resumes the continuation.
SpecLive == InitLive /\ [][Next]_vars /\ WF_vars(Next)

----------------------------------------------------------------------------
\* Vocabulary of the properties.
Starts == Range(startingSet)

IsCommit(h) == store[h].type = "commit"
IsTag(h) == store[h].type = "tag"
Parents(h) == Range(store[h].parent)

\* A commit whose parent list the walk follows.
OpenCommit(h) == IsCommit(h) /\ h \notin shallows

\* The walk has read h / has iterated the parent list of h.
Reached(h) == reads[h] > 0
Walked(h) == expanded[h] > 0

Keys == DOMAIN visited

\* c names p as a parent and the walk follows the parent list of c.
ParentEdge(c, p) ==
    OpenCommit(c) /\ \E i \in DOMAIN store[c].parent : store[c].parent[i] = p

\* c is a tag that points at p.
TagEdge(c, p) == IsTag(c) /\ store[c].object = p

\* Everything reachable from S by parent edges that leave open commits.
RECURSIVE ParentClosure(_)
ParentClosure(S) ==
    LET T == S \cup {p \in Oids \ S : \E c \in S : ParentEdge(c, p)}
    IN IF T = S THEN S ELSE ParentClosure(T)

\* Everything reachable from S by parent edges that leave open commits and by
\* tag-target edges.
RECURSIVE EdgeClosure(_)
EdgeClosure(S) ==
    LET T == S \cup {p \in Oids \ S : \E c \in S : ParentEdge(c, p) \/ TagEdge(c, p)}
    IN IF T = S THEN S ELSE EdgeClosure(T)

\* The object a chain of tags ends at.
RECURSIVE FinalTarget(_)
FinalTarget(h) == IF IsTag(h) THEN FinalTarget(store[h].object) ELSE h

\* C1: after a successful walk, every child c that was reached and is not
\* shallow occurs exactly once in the children of each of its parents.
ChildrenComplete ==
    status = "returned" =>
        \A c \in Oids : \A p \in Oids :
            (OpenCommit(c) /\ Reached(c) /\ p \in Parents(c)) =>
                (p \in Keys /\ Count(visited[p], c) = 1)

\* C2: no tag is a key of the returned map, and the final target of a starting
\* tag is a key together with its ancestry.
TagTransparent ==
    status = "returned" =>
        /\ \A k \in Keys : ~IsTag(k)
        /\ \A s \in Starts :
              IsTag(s) =>
                  {c \in ParentClosure({FinalTarget(s)}) : IsCommit(c)}
                      \subseteq Keys

\* C3: after a successful walk, every commit reachable from a starting hash by
\* parent edges that cross no shallow commit is a key.
ReachabilityComplete ==
    status = "returned" =>
        \A s \in Starts :
            \A c \in ParentClosure({s}) : IsCommit(c) => c \in Keys

ReachabilityWitness ==
    /\ status = "returned"
    /\ \E a \in Starts : \E b \in Parents(a) : \E c \in Parents(b) :
          /\ OpenCommit(a) /\ OpenCommit(b) /\ IsCommit(c)
          /\ c \notin Starts
          /\ c \in Keys

\* C4: the parent list of a shallow commit is never iterated; every key is
\* reachable from a starting hash without passing through a shallow commit;
\* a shallow commit that is a starting hash or a parent of a walked commit is
\* a key of the returned map, with no children when no walked commit names it.
ShallowCutoff ==
    /\ \A s \in Oids : (IsCommit(s) /\ s \in shallows) => ~Walked(s)
    /\ Keys \subseteq EdgeClosure(Starts)
    /\ status = "returned" =>
          \A s \in Oids :
              (IsCommit(s) /\ s \in shallows) =>
                  LET children == {c \in Oids : Walked(c) /\ s \in Parents(c)} IN
                    /\ (s \in Starts \/ children # {}) => s \in Keys
                    /\ (s \in Starts /\ children = {}) => visited[s] = << >>

ShallowWitness ==
    /\ status = "returned"
    /\ \E s \in Oids : \E p \in Parents(s) :
          /\ IsCommit(s) /\ s \in shallows /\ Reached(s)
          /\ s \in Keys
          /\ p \notin Keys
          /\ \E c \in Oids : Walked(c) /\ s \in Parents(c)

\* C5: a non-shallow commit is read and has its parent list iterated at most
\* once, and exactly once when the walk reached it.
NoDuplicateExpansion ==
    \A h \in Oids :
        OpenCommit(h) =>
            /\ reads[h] <= 1
            /\ expanded[h] <= 1
            /\ (status = "returned" /\ Reached(h)) => expanded[h] = 1

\* C6: a read of an object that is neither a commit nor a tag makes the call
\* fail with an ObjectTypeError carrying the oid, its kind and 'commit'; no
\* map is returned.
IsOtherKind(h) == store[h].type \notin {"commit", "tag", "missing"}

KindMismatchFails ==
    \A h \in Oids :
        (Reached(h) /\ IsOtherKind(h)) =>
            /\ status = "failed"
            /\ err.code = "ObjectTypeError"
            /\ err.oid = h
            /\ err.actual = store[h].type
            /\ err.expected = "commit"

KindMismatchWitness ==
    /\ status = "failed"
    /\ err.code = "ObjectTypeError"
    /\ err.oid \notin Starts
    /\ \E c \in Oids : Walked(c) /\ err.oid \in Parents(c)
    /\ Keys # {}

\* C7: a failed read or a kind mismatch ends the call in failure at once: from
\* then on nothing is read, the map does not change, no further starting hash
\* is taken up and the call never returns a map.
BadRead == \E h \in Oids : Reached(h) /\ ~IsCommit(h) /\ ~IsTag(h)

FailFast ==
    /\ [](BadRead => status = "failed")
    /\ [][status = "failed" =>
             (reads' = reads /\ visited' = visited /\ next' = next
                 /\ expanded' = expanded /\ status' = "failed")]_vars

FailFastWitness ==
    /\ status = "failed"
    /\ next <= Len(startingSet)
    /\ \E c \in Oids : \E i \in DOMAIN store[c].parent :
          /\ Walked(c)
          /\ i > 1
          /\ err.oid = store[c].parent[i]
          /\ store[c].parent[1] \in Keys

StartsAreKeys ==
    status = "returned" =>
        \A s \in Starts :
            /\ s \in Keys
            /\ (\A c \in Oids : Walked(c) => s \notin Parents(c)) => visited[s] = << >>

SingleRootWitness ==
    /\ status = "returned"
    /\ Len(startingSet) = 1
    /\ store[startingSet[1]] = CommitObject(<< >>)
    /\ Keys = {startingSet[1]}
    /\ visited[startingSet[1]] = << >>

\* C10: the map starts empty and only grows: no key is removed, and every
\* children sequence is a prefix of what it is one step later.
Monotonic ==
    /\ visited = EmptyVisited
    /\ [][\A k \in DOMAIN visited :
             k \in DOMAIN visited' /\ IsPrefix(visited[k], visited'[k])]_vars

\* C11: in every state, every key is a starting hash or is reached from one by
\* a chain of parent edges and tag-target edges.
KeysAreReachable == Keys \subseteq LeadsTo(Starts)

KeysAreReachableWitness ==
    /\ status = "returned"
    /\ Keys \ Starts # {}
    /\ Oids \ LeadsTo(Starts) # {}

\* C12: on an acyclic store the call ends: it returns the map or fails.
Terminates == <>(status \in {"returned", "failed"})

TerminatesWitness ==
    /\ status = "returned"
    /\ \A h \in Oids : Walked(h)
    /\ \E h \in Oids : Len(store[h].parent) >= 2

\* C13: no object is read and no key is inserted before every name is
\* resolved; when a name does not resolve the call fails with nothing read and
\* an empty map.
ResolutionFirst ==
    /\ ((\E h \in Oids : Reached(h)) \/ Keys # {}) =>
          (resolved = Len(refs) /\ NoOid \notin Range(refs))
    /\ NoOid \in Range(refs) =>
          /\ status # "returned"
          /\ reads = ZeroCount
          /\ Keys = {}
          /\ status = "failed" => err.code = "ResolveError"

ResolutionFirstWitness ==
    /\ status = "failed"
    /\ err.code = "ResolveError"
    /\ resolved >= 1
    /\ \E h \in Starts : ~IsCommit(h)

\* C14: a starting hash in the shallow set is read exactly once and its kind is
\* checked; its parent list is not iterated and it is recorded as a child of
\* none of its parents.
ShallowStart ==
    \A s \in Starts \cap shallows :
        /\ (Reached(s) /\ IsOtherKind(s)) =>
              (status = "failed" /\ err.code = "ObjectTypeError" /\ err.oid = s)
        /\ ~Walked(s)
        /\ \A p \in Keys : s \notin Range(visited[p])
        /\ reads[s] <= 1
        /\ status = "returned" => reads[s] = 1

\* C15: a child is always added at the end of a children sequence, and it is
\* the commit the walk is at; when the starting commits C and D, walked in that
\* order and neither an ancestor of the other, both name B as a parent, C comes
\* before D in the children of B (which are exactly C, D when no other walked
\* commit names B) and C and D are keys without children.
MergeScenario(b, c, d) ==
    /\ startingSet = <<c, d>>
    /\ OpenCommit(c) /\ OpenCommit(d)
    /\ b \in Parents(c) /\ b \in Parents(d)
    /\ c \notin LeadsTo({d}) /\ d \notin LeadsTo({c})

DiscoveryOrder ==
    /\ [](status = "returned" =>
            \A b \in Oids : \A c \in Oids : \A d \in Oids :
                MergeScenario(b, c, d) =>
                    LET OfInterest(x) == x \in {c, d} IN
                      /\ b \in Keys /\ c \in Keys /\ d \in Keys
                      /\ SelectSeq(visited[b], OfInterest) = <<c, d>>
                      /\ (\A e \in Oids \ {c, d} : ~(Walked(e) /\ b \in Parents(e)))
                            => visited[b] = <<c, d>>
                      /\ visited[c] = << >>
                      /\ visited[d] = << >>)
    /\ [][\A p \in DOMAIN visited' :
             LET old == IF p \in DOMAIN visited THEN visited[p] ELSE << >> IN
               \/ visited'[p] = old
               \/ stack # << >> /\ visited'[p] = Append(old, Top.oid)
               \/ stack = << >> /\ visited'[p] = << >>]_vars

DiscoveryOrderWitness ==
    /\ status = "returned"
    /\ \E b \in Oids : \E c \in Oids : \E d \in Oids :
          /\ MergeScenario(b, c, d)
          /\ c > d
          /\ visited[b] = <<c, d>>

\* C16: in every state, every recorded child is a commit outside the shallow
\* set that names the key as a parent.
EdgesAreSound ==
    \A p \in Keys : \A i \in DOMAIN visited[p] :
        LET c == visited[p][i] IN
          /\ IsCommit(c)
          /\ c \notin shallows
          /\ p \in Parents(c)

EdgesAreSoundWitness ==
    /\ status = "returned"
    /\ \E p \in Keys \cap shallows :
          /\ IsCommit(p)
          /\ Parents(p) # {}
          /\ visited[p] # << >>

====
